---- MODULE Spec2Model ----
(***************************************************************************)
(* ClipStream (src/app): the relational tables of models.py and the HTTP   *)
(* handlers of main.py as a state machine.                                 *)
(*                                                                         *)
(*   Spec, SpecLikes, SpecSocial, SpecSubscribe                            *)
(*               every handler is one atomic step (requests one at a time) *)
(*   SpecToggle  like_video / subscribe_user requests in flight together:  *)
(*               each request reads on its own session, then commits       *)
(*   SpecUpload  upload_video requests in flight together                  *)
(*   SpecRec     get_recommendations over large catalogues                 *)
(*                                                                         *)
(* Text (genre names, the genres form field) is a tuple of one-character   *)
(* strings, so that split, strip and lower are computed, not assumed.      *)
(***************************************************************************)
EXTENDS Naturals, Sequences, FiniteSets, Bags, TLC

VARIABLES users, genres, videos, video_genre, comments, video_likes,
          subscriptions, now, resp, reqs

tables == <<users, genres, videos, video_genre, comments, video_likes,
            subscriptions, now>>
vars == <<users, genres, videos, video_genre, comments, video_likes,
          subscriptions, now, resp, reqs>>

(***************************************************************************)
(* Bounds of the model.                                                    *)
(***************************************************************************)
MaxVideos == 2
MaxChannelVideos == 1
MaxComments == 1
MaxRowId == 3
MaxReqs == 2
MaxCatalogue == 22

\* .limit(20) of the recommendation query
RecLimit == 20

(***************************************************************************)
(* Text.                                                                   *)
(***************************************************************************)
UpperCase == <<"A","B","C","D","E","F","G","H","I","J","K","L","M",
               "N","O","P","Q","R","S","T","U","V","W","X","Y","Z">>
LowerCase == <<"a","b","c","d","e","f","g","h","i","j","k","l","m",
               "n","o","p","q","r","s","t","u","v","w","x","y","z">>
\* cased letters outside ASCII
UpperOther == <<"É">>
LowerOther == <<"é">>
Whitespace == {" ", "\t", "\n"}

\* the lower-case letter of an ASCII upper-case letter
LowerChar(c) ==
    IF \E i \in DOMAIN UpperCase : UpperCase[i] = c
    THEN LowerCase[CHOOSE i \in DOMAIN UpperCase : UpperCase[i] = c]
    ELSE c

\* the lower-case letter of any upper-case letter
LowerCharUnicode(c) ==
    IF \E i \in DOMAIN UpperOther : UpperOther[i] = c
    THEN LowerOther[CHOOSE i \in DOMAIN UpperOther : UpperOther[i] = c]
    ELSE LowerChar(c)

\* name.lower() of the handler: Python lowers every cased letter
str_lower(s) == [i \in 1..Len(s) |-> LowerCharUnicode(s[i])]

\* func.lower(Genre.name) of the query: lower() of SQLite (database.py)
\* lowers the ASCII letters only
func_lower(s) == [i \in 1..Len(s) |-> LowerChar(s[i])]

RECURSIVE lstrip(_)
lstrip(s) == IF s # <<>> /\ Head(s) \in Whitespace THEN lstrip(Tail(s)) ELSE s

RECURSIVE rstrip(_)
rstrip(s) ==
    IF s # <<>> /\ s[Len(s)] \in Whitespace
    THEN rstrip(SubSeq(s, 1, Len(s) - 1))
    ELSE s

\* g.strip()
strip(s) == rstrip(lstrip(s))

\* genres.split(","): cur is the piece being read
RECURSIVE split(_, _)
split(s, cur) ==
    IF s = <<>> THEN <<cur>>
    ELSE IF Head(s) = "," THEN <<cur>> \o split(Tail(s), <<>>)
    ELSE split(Tail(s), Append(cur, Head(s)))

RECURSIVE StripNonEmpty(_)
StripNonEmpty(parts) ==
    IF parts = <<>> THEN <<>>
    ELSE IF strip(Head(parts)) # <<>>
         THEN <<strip(Head(parts))>> \o StripNonEmpty(Tail(parts))
         ELSE StripNonEmpty(Tail(parts))

\* genre_names = [g.strip() for g in genres.split(",") if g.strip()]
genre_names(s) == StripNonEmpty(split(s, <<>>))

(***************************************************************************)
(* Inputs of the requests.                                                 *)
(***************************************************************************)
UserNames == {"alice", "bob"}
InvalidToken == "invalid"
NoSub == ""
\* a bearer token is named by the subject it was signed for
Tokens == UserNames \cup {InvalidToken}

Comedy == <<"C","o","m","e","d","y">>
comedy == <<"c","o","m","e","d","y">>
COMEDY == <<"C","O","M","E","D","Y">>
Horror == <<"H","o","r","r","o","r">>
Ete == <<"É","t","é">>
ete == <<"é","t","é">>
Sep == <<",", " ">>

\* values of the genres form field ("" is its default)
GenreForms ==
    { <<>>,
      Comedy,
      Comedy \o Sep \o comedy \o Sep \o COMEDY,
      <<" ">> \o comedy \o <<" ", ",", ",">> \o Horror,
      Horror,
      Ete,
      ete }

VideoIds == 1..(MaxVideos + 1)
UserIds == 1..(Cardinality(UserNames) + 1)

(***************************************************************************)
(* Tables.  A table whose rows are never deleted is a sequence, row i      *)
(* having primary key i; video_likes and subscriptions, whose rows are     *)
(* deleted, are sets of rows carrying their id.                            *)
(***************************************************************************)
Range(f) == {f[i] : i \in DOMAIN f}

Max(S) == IF S = {} THEN 0 ELSE CHOOSE m \in S : \A x \in S : x <= m

\* the INTEGER PRIMARY KEY given to a new row: one more than the largest
NextId(rows) == Max({r.id : r \in rows}) + 1

\* User.username == username, .first()
UserByName(tbl, name) ==
    IF \E i \in DOMAIN tbl : tbl[i].username = name
    THEN CHOOSE i \in DOMAIN tbl : tbl[i].username = name
    ELSE 0

\* mutant: the row is taken to exist
RowByIdUnchecked(tbl, id) == id

\* Model.id == id, .first()
RowById(tbl, id) == IF id \in DOMAIN tbl THEN id ELSE 0

(***************************************************************************)
(* Authentication (get_current_user).  decode_token lives in security.py;  *)
(* a token yields the subject it was signed for, an invalid one none.      *)
(***************************************************************************)
decode_token(token) ==
    IF token \in UserNames THEN [sub |-> token] ELSE [sub |-> NoSub]

\* the id of the calling user, 0 when the request is answered 401
get_current_user(token, tbl) ==
    LET username == decode_token(token).sub
    IN  IF username = NoSub THEN 0 ELSE UserByName(tbl, username)

(***************************************************************************)
(* Responses.  body is a sequence of [video, score] items (score 0 where   *)
(* the endpoint returns plain videos); before is the set of (user, video)  *)
(* pairs liked when a like_video request arrived.                          *)
(***************************************************************************)
Response(op, uid, arg, status, detail, body, before) ==
    [op |-> op, uid |-> uid, arg |-> arg, status |-> status,
     detail |-> detail, body |-> body, before |-> before]

NoResponse == Response("none", 0, 0, 0, "", <<>>, {})

Unauthorized(op, arg) == Response(op, 0, arg, 401, "Unauthorized", <<>>, {})

LikePairs(rows) == {<<l.user_id, l.video_id>> : l \in rows}

SubPairs(rows) == {<<s.subscriber_id, s.channel_id>> : s \in rows}

(***************************************************************************)
(* register                                                                *)
(***************************************************************************)
\* mutant: the handler skips the lookup
UsernameNeverTaken(tbl, name) == FALSE

\* existing = db.query(User).filter(User.username == username).first()
UsernameTaken(tbl, name) == UserByName(tbl, name) # 0

\* UNIQUE(users.username)
uq_username(tbl, name) == \A i \in DOMAIN tbl : tbl[i].username # name

register(name) ==
    /\ IF UsernameTaken(users, name)
       THEN /\ resp' = Response("register", 0, name, 400,
                                "Username already taken", <<>>, {})
            /\ UNCHANGED users
       ELSE IF uq_username(users, name)
       THEN /\ users' = Append(users, [username |-> name])
            /\ resp' = Response("register", Len(users) + 1, name, 201,
                                "", <<>>, {})
       ELSE /\ resp' = Response("register", 0, name, 500,
                                "IntegrityError", <<>>, {})
            /\ UNCHANGED users
    /\ UNCHANGED <<genres, videos, video_genre, comments, video_likes,
                   subscriptions, now, reqs>>

(***************************************************************************)
(* upload_video                                                            *)
(***************************************************************************)
\* the rows of db.query(Genre).filter(func.lower(Genre.name) == name.lower())
GenreMatches(tbl, name) ==
    {g \in DOMAIN tbl : func_lower(tbl[g]) = str_lower(name)}

\* UNIQUE(genres.name)
uq_genre_name(tbl, name) == \A g \in DOMAIN tbl : tbl[g] # name

\* The loop over genre_names on a session that sees tbl (the committed rows
\* and the rows it flushed itself).  list is video.genres, a Python list of
\* genre ids; stale says that the lookup of the first name was already made
\* and found nothing.  .first() has no ORDER BY: any matching row.  The result
\* is the set of possible [ok, genres, list]; ok is FALSE when a flush failed.
RECURSIVE GenreLoop(_, _, _, _)
GenreLoop(tbl, list, names, stale) ==
    IF names = <<>> THEN {[ok |-> TRUE, genres |-> tbl, list |-> list]}
    ELSE LET name == Head(names)
             found == IF stale THEN {} ELSE GenreMatches(tbl, name)
         IN  IF found # {}
             THEN UNION {GenreLoop(tbl, Append(list, g), Tail(names), FALSE) :
                         g \in found}
             ELSE IF uq_genre_name(tbl, name)
             THEN GenreLoop(Append(tbl, name), Append(list, Len(tbl) + 1),
                            Tail(names), FALSE)
             ELSE {[ok |-> FALSE, genres |-> tbl, list |-> list]}

\* The video_genre rows written for video.genres at commit: one INSERT per
\* element of the list.
AssociationRows(vid, list) ==
    [i \in DOMAIN list |-> [video_id |-> vid, genre_id |-> list[i]]]

\* PRIMARY KEY (video_id, genre_id) of video_genre
pk_video_genre(rows) ==
    \A i, j \in DOMAIN rows : rows[i] = rows[j] => i = j

\* db.add(video); db.commit(): everything the request wrote, or nothing
UploadCommit(uid, form, o) ==
    LET vid == Len(videos) + 1
        rows == AssociationRows(vid, o.list)
    IN  IF o.ok /\ pk_video_genre(rows)
        THEN /\ genres' = o.genres
             /\ videos' = Append(videos, [owner_id |-> uid, created_at |-> now])
             /\ video_genre' = video_genre \cup Range(rows)
             /\ now' = now + 1
             /\ resp' = Response("upload_video", uid, form, 201, "",
                   <<[video |-> [id |-> vid, owner_id |-> uid,
                                 created_at |-> now,
                                 genres |-> Range(o.list), likes |-> 0],
                      score |-> 0]>>, {})
        ELSE /\ resp' = Response("upload_video", uid, form, 500,
                                 "IntegrityError", <<>>, {})
             /\ UNCHANGED <<genres, videos, video_genre, now>>

upload_video(token, form) ==
    LET uid == get_current_user(token, users)
    IN  /\ IF uid = 0
           THEN /\ resp' = Unauthorized("upload_video", form)
                /\ UNCHANGED <<genres, videos, video_genre, now>>
           ELSE \E o \in GenreLoop(genres, <<>>, genre_names(form), FALSE) :
                    UploadCommit(uid, form, o)
        /\ UNCHANGED <<users, comments, video_likes, subscriptions, reqs>>

(***************************************************************************)
(* serialize_video, get_video, list_videos                                 *)
(***************************************************************************)
\* db.query(func.count(VideoLike.id)).filter(VideoLike.video_id == video.id)
LikeCount(rows, vid) == Cardinality({l \in rows : l.video_id = vid})

GenresOf(vg, vid) == {r.genre_id : r \in {x \in vg : x.video_id = vid}}

serialize_video(vid) ==
    [id |-> vid, owner_id |-> videos[vid].owner_id,
     created_at |-> videos[vid].created_at,
     genres |-> GenresOf(video_genre, vid),
     likes |-> LikeCount(video_likes, vid)]

get_video(video_id) ==
    /\ resp' = IF RowById(videos, video_id) = 0
               THEN Response("get_video", 0, video_id, 404,
                             "Video not found", <<>>, {})
               ELSE Response("get_video", 0, video_id, 200, "",
                      <<[video |-> serialize_video(video_id), score |-> 0]>>,
                      {})
    /\ UNCHANGED <<tables, reqs>>

\* order_by(Video.created_at.desc()): the videos of S, newest first
RECURSIVE NewestFirst(_)
NewestFirst(S) ==
    IF S = {} THEN <<>>
    ELSE LET v == CHOOSE x \in S :
                     \A y \in S : videos[y].created_at <= videos[x].created_at
         IN  <<v>> \o NewestFirst(S \ {v})

\* .offset(skip).limit(limit)
Page(seq, skip, limit) ==
    SubSeq(seq, skip + 1,
           IF Len(seq) < skip + limit THEN Len(seq) ELSE skip + limit)

list_videos(skip, limit) ==
    /\ LET page == Page(NewestFirst(DOMAIN videos), skip, limit)
       IN  resp' = Response("list_videos", 0, skip, 200, "",
                     [i \in DOMAIN page |->
                        [video |-> serialize_video(page[i]), score |-> 0]],
                     {})
    /\ UNCHANGED <<tables, reqs>>

(***************************************************************************)
(* add_comment                                                             *)
(***************************************************************************)
add_comment(token, video_id) ==
    LET uid == get_current_user(token, users)
        video == RowById(videos, video_id)
    IN  /\ IF uid = 0
           THEN /\ resp' = Unauthorized("add_comment", video_id)
                /\ UNCHANGED comments
           ELSE IF video = 0
           THEN /\ resp' = Response("add_comment", uid, video_id, 404,
                                    "Video not found", <<>>, {})
                /\ UNCHANGED comments
           ELSE /\ comments' = Append(comments,
                                  [author_id |-> uid, video_id |-> video])
                /\ resp' = Response("add_comment", uid, video_id, 201,
                                    "", <<>>, {})
        /\ UNCHANGED <<users, genres, videos, video_genre, video_likes,
                       subscriptions, now, reqs>>

(***************************************************************************)
(* Toggles: like_video and subscribe_user.  A request first reads (the     *)
(* existence check) and so decides what it will write, its plan; db.commit *)
(* then flushes the plan and commits.                                      *)
(***************************************************************************)
\* existing_like: filter(user_id == .., video_id == ..).first()
ExistingLike(rows, uid, vid) ==
    {l \in rows : l.user_id = uid /\ l.video_id = vid}

\* existing: filter(subscriber_id == .., channel_id == ..).first()
ExistingSub(rows, uid, cid) ==
    {s \in rows : s.subscriber_id = uid /\ s.channel_id = cid}

\* mutant: the toggle never deletes
TogglePlanInsertOnly(existing) == [kind |-> "insert", id |-> 0]

\* if existing: db.delete(existing) else: db.add(row)
TogglePlan(existing) ==
    IF existing # {}
    THEN [kind |-> "delete", id |-> (CHOOSE e \in existing : TRUE).id]
    ELSE [kind |-> "insert", id |-> 0]

\* mutant: the table has no unique constraint
uq_video_like_dropped(rows, uid, vid) == TRUE

\* UniqueConstraint("user_id", "video_id", name="uq_video_like")
uq_video_like(rows, uid, vid) ==
    \A l \in rows : ~(l.user_id = uid /\ l.video_id = vid)

\* mutant: the table has no unique constraint
uq_subscription_dropped(rows, uid, cid) == TRUE

\* UniqueConstraint("subscriber_id", "channel_id", name="uq_subscription")
uq_subscription(rows, uid, cid) ==
    \A s \in rows : ~(s.subscriber_id = uid /\ s.channel_id = cid)

\* DELETE ... WHERE id = :id (a row already gone is no error)
DeleteById(rows, id) == {r \in rows : r.id # id}

\* db.commit() of like_video on the committed rows: [ok, rows]
LikeCommit(rows, plan, uid, vid) ==
    IF plan.kind = "delete"
    THEN [ok |-> TRUE, rows |-> DeleteById(rows, plan.id)]
    ELSE IF uq_video_like(rows, uid, vid)
    THEN [ok |-> TRUE,
          rows |-> rows \cup {[id |-> NextId(rows), user_id |-> uid,
                               video_id |-> vid]}]
    ELSE [ok |-> FALSE, rows |-> rows]

\* db.commit() of subscribe_user on the committed rows: [ok, rows]
SubscribeCommit(rows, plan, uid, cid) ==
    IF plan.kind = "delete"
    THEN [ok |-> TRUE, rows |-> DeleteById(rows, plan.id)]
    ELSE IF uq_subscription(rows, uid, cid)
    THEN [ok |-> TRUE,
          rows |-> rows \cup {[id |-> NextId(rows), subscriber_id |-> uid,
                               channel_id |-> cid]}]
    ELSE [ok |-> FALSE, rows |-> rows]

LikeMessage(plan) ==
    IF plan.kind = "delete" THEN "Like removed" ELSE "Video liked"

SubscribeMessage(plan) ==
    IF plan.kind = "delete" THEN "Unsubscribed" ELSE "Subscribed"

\* the new row's id stays within the model's bound
IdInBound(rows, plan) == plan.kind = "insert" => NextId(rows) <= MaxRowId

like_video(token, video_id) ==
    LET uid == get_current_user(token, users)
        video == RowById(videos, video_id)
        plan == TogglePlan(ExistingLike(video_likes, uid, video))
        done == LikeCommit(video_likes, plan, uid, video)
        before == LikePairs(video_likes)
    IN  /\ IF uid = 0
           THEN /\ resp' = Unauthorized("like_video", video_id)
                /\ UNCHANGED video_likes
           ELSE IF video = 0
           THEN /\ resp' = Response("like_video", uid, video_id, 404,
                                    "Video not found", <<>>, {})
                /\ UNCHANGED video_likes
           ELSE /\ IdInBound(video_likes, plan)
                /\ video_likes' = done.rows
                /\ resp' = IF done.ok
                           THEN Response("like_video", uid, video_id, 200,
                                         LikeMessage(plan), <<>>, before)
                           ELSE Response("like_video", uid, video_id, 500,
                                         "IntegrityError", <<>>, before)
        /\ UNCHANGED <<users, genres, videos, video_genre, comments,
                       subscriptions, now, reqs>>

\* mutant: the self check compares nothing
IsSelfNever(uid, user_id) == FALSE

\* current_user.id == user_id
IsSelf(uid, user_id) == uid = user_id

subscribe_user(token, user_id) ==
    LET uid == get_current_user(token, users)
        channel == RowById(users, user_id)
        plan == TogglePlan(ExistingSub(subscriptions, uid, channel))
        done == SubscribeCommit(subscriptions, plan, uid, channel)
    IN  /\ IF uid = 0
           THEN /\ resp' = Unauthorized("subscribe_user", user_id)
                /\ UNCHANGED subscriptions
           ELSE IF IsSelf(uid, user_id)
           THEN /\ resp' = Response("subscribe_user", uid, user_id, 400,
                                    "Cannot subscribe to yourself", <<>>, {})
                /\ UNCHANGED subscriptions
           ELSE IF channel = 0
           THEN /\ resp' = Response("subscribe_user", uid, user_id, 404,
                                    "User not found", <<>>, {})
                /\ UNCHANGED subscriptions
           ELSE /\ IdInBound(subscriptions, plan)
                /\ subscriptions' = done.rows
                /\ resp' = IF done.ok
                           THEN Response("subscribe_user", uid, user_id, 200,
                                         SubscribeMessage(plan), <<>>, {})
                           ELSE Response("subscribe_user", uid, user_id, 500,
                                         "IntegrityError", <<>>, {})
        /\ UNCHANGED <<users, genres, videos, video_genre, comments,
                       video_likes, now, reqs>>

(***************************************************************************)
(* get_recommendations                                                     *)
(***************************************************************************)
\* Genre.id joined to video_genre, Video and VideoLike, filtered on the
\* caller's likes, distinct
LikedGenreIds(uid) ==
    {x.genre_id : x \in
        {r \in video_genre :
            /\ r.video_id \in DOMAIN videos
            /\ r.genre_id \in DOMAIN genres
            /\ \E l \in video_likes :
                  l.user_id = uid /\ l.video_id = r.video_id}}

\* func.count(Genre.id) of one group: the video's video_genre rows whose
\* genre is in liked
Score(vid, liked) ==
    Cardinality({r \in video_genre : r.video_id = vid /\ r.genre_id \in liked})

\* the groups of the join: Genre.id.in_(liked), Video.owner_id != caller
Candidates(uid, liked) ==
    {v \in DOMAIN videos : videos[v].owner_id # uid /\ Score(v, liked) > 0}

\* mutant: ties are broken oldest first
RankedBeforeOldestFirst(a, b, liked) ==
    \/ Score(a, liked) > Score(b, liked)
    \/ /\ Score(a, liked) = Score(b, liked)
       /\ videos[a].created_at <= videos[b].created_at

\* order_by(count.desc(), Video.created_at.desc()): a sorts no later than b
RankedBefore(a, b, liked) ==
    \/ Score(a, liked) > Score(b, liked)
    \/ /\ Score(a, liked) = Score(b, liked)
       /\ videos[a].created_at >= videos[b].created_at

RECURSIVE Ranked(_, _)
Ranked(S, liked) ==
    IF S = {} THEN <<>>
    ELSE LET v == CHOOSE x \in S : \A y \in S : RankedBefore(x, y, liked)
         IN  <<v>> \o Ranked(S \ {v}, liked)

\* .limit(20)
Limit(seq) == SubSeq(seq, 1, IF Len(seq) < RecLimit THEN Len(seq) ELSE RecLimit)

Recommendations(uid) ==
    LET liked == LikedGenreIds(uid)
        top == Limit(Ranked(Candidates(uid, liked), liked))
    IN  IF liked = {} THEN <<>>
        ELSE [i \in DOMAIN top |->
                [video |-> serialize_video(top[i]),
                 score |-> Score(top[i], liked)]]

get_recommendations(token) ==
    LET uid == get_current_user(token, users)
    IN  /\ resp' = IF uid = 0
                   THEN Unauthorized("get_recommendations", 0)
                   ELSE Response("get_recommendations", uid, 0, 200, "",
                                 Recommendations(uid), {})
        /\ UNCHANGED <<tables, reqs>>

(***************************************************************************)
(* Requests one at a time, from the empty database.                        *)
(***************************************************************************)
Init ==
    /\ users = <<>>
    /\ genres = <<>>
    /\ videos = <<>>
    /\ video_genre = {}
    /\ comments = <<>>
    /\ video_likes = {}
    /\ subscriptions = {}
    /\ now = 1
    /\ resp = NoResponse
    /\ reqs = EmptyBag

\* the catalogue stays within the model's bound
CanUpload(max) == Len(videos) < max

\* accounts and catalogue
Next ==
    \/ \E name \in UserNames : register(name)
    \/ \E token \in Tokens, form \in GenreForms :
          CanUpload(MaxVideos) /\ upload_video(token, form)
    \/ \E video_id \in VideoIds : get_video(video_id)
    \/ \E skip \in 0..1, limit \in 1..2 : list_videos(skip, limit)

Spec == Init /\ [][Next]_vars

\* likes, like counts and recommendations
LikeForms == {Horror, <<" ">> \o comedy \o <<" ", ",", ",">> \o Horror}

NextLikes ==
    \/ \E name \in UserNames : register(name)
    \/ \E token \in UserNames, form \in LikeForms :
          CanUpload(MaxChannelVideos) /\ upload_video(token, form)
    \/ \E token \in Tokens, video_id \in VideoIds : like_video(token, video_id)
    \/ \E video_id \in VideoIds : get_video(video_id)
    \/ list_videos(0, RecLimit)
    \/ \E token \in Tokens : get_recommendations(token)

SpecLikes == Init /\ [][NextLikes]_vars

\* comments, likes and subscriptions
NextSocial ==
    \/ \E name \in UserNames : register(name)
    \/ \E token \in UserNames :
          CanUpload(MaxChannelVideos) /\ upload_video(token, <<>>)
    \/ \E token \in Tokens, video_id \in 1..(MaxChannelVideos + 1) :
          Len(comments) < MaxComments /\ add_comment(token, video_id)
    \/ \E token \in Tokens, video_id \in 1..(MaxChannelVideos + 1) :
          like_video(token, video_id)
    \/ \E token \in Tokens, user_id \in UserIds : subscribe_user(token, user_id)

SpecSocial == Init /\ [][NextSocial]_vars

\* accounts and subscriptions
NextSubscribe ==
    \/ \E name \in UserNames : register(name)
    \/ \E token \in Tokens, user_id \in UserIds : subscribe_user(token, user_id)

SpecSubscribe == Init /\ [][NextSubscribe]_vars

(***************************************************************************)
(* Requests in flight together.  Each request has its own session          *)
(* (get_db); the database is all they share.  reqs is the bag of requests  *)
(* that have made their reads and not yet written; a request's writes go   *)
(* to the database in one step, under the database's single write lock,    *)
(* and resp is the response of the request that ended last.                *)
(***************************************************************************)
Pending(op, uid, arg, plan, names, list, stale) ==
    [op |-> op, uid |-> uid, arg |-> arg, plan |-> plan,
     names |-> names, list |-> list, stale |-> stale]

NoPlan == [kind |-> "none", id |-> 0]

\* a worker is free to take a request
CanAccept == BagCardinality(reqs) < MaxReqs

Accept(q) == reqs' = reqs (+) SetToBag({q})

Finish(q) == reqs' = reqs (-) SetToBag({q})

\* like_video up to db.commit(): the caller, the video, the existing like
LikeRead(token, video_id) ==
    LET uid == get_current_user(token, users)
        video == RowById(videos, video_id)
        plan == TogglePlan(ExistingLike(video_likes, uid, video))
    IN  /\ CanAccept
        /\ IF uid = 0
           THEN /\ resp' = Unauthorized("like_video", video_id)
                /\ UNCHANGED reqs
           ELSE IF video = 0
           THEN /\ resp' = Response("like_video", uid, video_id, 404,
                                    "Video not found", <<>>, {})
                /\ UNCHANGED reqs
           ELSE /\ Accept(Pending("like_video", uid, video, plan,
                                  <<>>, <<>>, FALSE))
                /\ UNCHANGED resp
        /\ UNCHANGED tables

\* db.commit() of a like_video request in flight
LikeWrite(q) ==
    LET done == LikeCommit(video_likes, q.plan, q.uid, q.arg)
    IN  /\ q.op = "like_video"
        /\ IdInBound(video_likes, q.plan)
        /\ video_likes' = done.rows
        /\ resp' = IF done.ok
                   THEN Response("like_video", q.uid, q.arg, 200,
                                 LikeMessage(q.plan), <<>>, {})
                   ELSE Response("like_video", q.uid, q.arg, 500,
                                 "IntegrityError", <<>>, {})
        /\ Finish(q)
        /\ UNCHANGED <<users, genres, videos, video_genre, comments,
                       subscriptions, now>>

\* subscribe_user up to db.commit()
SubscribeRead(token, user_id) ==
    LET uid == get_current_user(token, users)
        channel == RowById(users, user_id)
        plan == TogglePlan(ExistingSub(subscriptions, uid, channel))
    IN  /\ CanAccept
        /\ IF uid = 0
           THEN /\ resp' = Unauthorized("subscribe_user", user_id)
                /\ UNCHANGED reqs
           ELSE IF IsSelf(uid, user_id)
           THEN /\ resp' = Response("subscribe_user", uid, user_id, 400,
                                    "Cannot subscribe to yourself", <<>>, {})
                /\ UNCHANGED reqs
           ELSE IF channel = 0
           THEN /\ resp' = Response("subscribe_user", uid, user_id, 404,
                                    "User not found", <<>>, {})
                /\ UNCHANGED reqs
           ELSE /\ Accept(Pending("subscribe_user", uid, channel, plan,
                                  <<>>, <<>>, FALSE))
                /\ UNCHANGED resp
        /\ UNCHANGED tables

\* db.commit() of a subscribe_user request in flight
SubscribeWrite(q) ==
    LET done == SubscribeCommit(subscriptions, q.plan, q.uid, q.arg)
    IN  /\ q.op = "subscribe_user"
        /\ IdInBound(subscriptions, q.plan)
        /\ subscriptions' = done.rows
        /\ resp' = IF done.ok
                   THEN Response("subscribe_user", q.uid, q.arg, 200,
                                 SubscribeMessage(q.plan), <<>>, {})
                   ELSE Response("subscribe_user", q.uid, q.arg, 500,
                                 "IntegrityError", <<>>, {})
        /\ Finish(q)
        /\ UNCHANGED <<users, genres, videos, video_genre, comments,
                       video_likes, now>>

NextToggle ==
    \/ \E name \in UserNames : register(name)
    \/ \E token \in UserNames :
          CanUpload(MaxChannelVideos) /\ upload_video(token, <<>>)
    \/ \E token \in Tokens, video_id \in 1..(MaxChannelVideos + 1) :
          LikeRead(token, video_id)
    \/ \E q \in BagToSet(reqs) : LikeWrite(q)
    \/ \E token \in Tokens, user_id \in UserIds : SubscribeRead(token, user_id)
    \/ \E q \in BagToSet(reqs) : SubscribeWrite(q)

SpecToggle == Init /\ [][NextToggle]_vars

(***************************************************************************)
(* upload_video requests in flight together.  The lookups of the genre     *)
(* loop are reads; the first INSERT (db.flush()) takes the write lock,     *)
(* which the request holds until its commit or rollback, so the rest of    *)
(* the handler is one step.                                                *)
(* upload_video is an async def without an await: one server process runs  *)
(* its body to the end, so the requests interleaved here are served by     *)
(* different server processes working on the same database file.           *)
(***************************************************************************)
UploadBegin(token, form) ==
    LET uid == get_current_user(token, users)
    IN  /\ CanAccept
        /\ IF uid = 0
           THEN /\ resp' = Unauthorized("upload_video", form)
                /\ UNCHANGED reqs
           ELSE /\ Accept(Pending("upload_video", uid, form, NoPlan,
                                  genre_names(form), <<>>, FALSE))
                /\ UNCHANGED resp
        /\ UNCHANGED tables

\* one lookup of the loop, made before the request has written anything
UploadLookup(q) ==
    LET found == GenreMatches(genres, Head(q.names))
    IN  /\ q.op = "upload_video"
        /\ q.names # <<>>
        /\ ~q.stale
        /\ IF found # {}
           THEN \E g \in found :
                   reqs' = (reqs (-) SetToBag({q})) (+)
                           SetToBag({[q EXCEPT !.names = Tail(q.names),
                                               !.list = Append(q.list, g)]})
           ELSE reqs' = (reqs (-) SetToBag({q})) (+)
                        SetToBag({[q EXCEPT !.stale = TRUE]})
        /\ UNCHANGED <<tables, resp>>

\* from the first INSERT, or from db.add(video), to the end of the handler
UploadWrite(q) ==
    /\ q.op = "upload_video"
    /\ q.names = <<>> \/ q.stale
    /\ CanUpload(MaxVideos)
    /\ \E o \in GenreLoop(genres, q.list, q.names, q.stale) :
          UploadCommit(q.uid, q.arg, o)
    /\ Finish(q)
    /\ UNCHANGED <<users, comments, video_likes, subscriptions>>

UploadForms == {Comedy, comedy, Horror \o Sep \o COMEDY, Ete, ete}

NextUpload ==
    \/ \E name \in UserNames : register(name)
    \/ \E token \in Tokens, form \in UploadForms : UploadBegin(token, form)
    \/ \E q \in BagToSet(reqs) : UploadLookup(q)
    \/ \E q \in BagToSet(reqs) : UploadWrite(q)

SpecUpload == Init /\ [][NextUpload]_vars

(***************************************************************************)
(* get_recommendations over catalogues larger than the query's limit: the  *)
(* database after two registrations and n uploads, then likes and          *)
(* recommendation requests.                                                *)
(***************************************************************************)
\* the genre ids of upload i in catalogue shape p
CatalogueGenres(p, i) ==
    IF p = 1 THEN {1}
    ELSE IF p = 2 THEN (IF i % 2 = 1 THEN {1} ELSE {1, 2})
    ELSE (IF i % 3 = 0 THEN {} ELSE IF i % 3 = 1 THEN {2} ELSE {1, 2})

InitRec ==
    \E n \in {RecLimit, MaxCatalogue}, p \in 1..3, m \in {2, MaxCatalogue} :
        /\ users = <<[username |-> "alice"], [username |-> "bob"]>>
        /\ genres = <<Comedy, Horror>>
        /\ videos = [i \in 1..n |->
                       [owner_id |-> IF i % m = 0 THEN 2 ELSE 1,
                        created_at |-> i]]
        /\ video_genre = UNION {{[video_id |-> i, genre_id |-> g] :
                                    g \in CatalogueGenres(p, i)} : i \in 1..n}
        /\ comments = <<>>
        /\ video_likes = {}
        /\ subscriptions = {}
        /\ now = n + 1
        /\ resp = NoResponse
        /\ reqs = EmptyBag

NextRec ==
    \/ \E token \in UserNames, video_id \in 1..2 : like_video(token, video_id)
    \/ \E token \in Tokens : get_recommendations(token)

SpecRec == InitRec /\ [][NextRec]_vars

(***************************************************************************)
(* Claims.                                                                 *)
(***************************************************************************)
HasLike(rows, u, v) == \E l \in rows : l.user_id = u /\ l.video_id = v

\* A step that is like_video by an authenticated user u on an existing
\* video v flips the presence of the (u, v) row and of no other pair, and
\* answers "Video liked" or "Like removed" accordingly; the second of two
\* consecutive such calls restores the pairs liked before the first.
C1_LikeStep ==
    \A token \in Tokens, v \in VideoIds :
        LET u == get_current_user(token, users)
        IN  (like_video(token, v) /\ u # 0 /\ v \in DOMAIN videos) =>
              /\ resp'.status = 200
              /\ HasLike(video_likes', u, v) = ~HasLike(video_likes, u, v)
              /\ resp'.detail = IF HasLike(video_likes, u, v)
                                THEN "Like removed" ELSE "Video liked"
              /\ LikePairs(video_likes') \ {<<u, v>>}
                    = LikePairs(video_likes) \ {<<u, v>>}
              /\ Cardinality(video_likes') = Cardinality(LikePairs(video_likes'))
              /\ (/\ resp.op = "like_video"
                  /\ resp.status = 200
                  /\ resp.uid = u
                  /\ resp.arg = v) => LikePairs(video_likes') = resp.before

\* The likes value of every video returned by get_video and list_videos is
\* the number of video_likes rows with that video_id.
C1_LikeCountShown ==
    resp.op \in {"get_video", "list_videos"} =>
        \A i \in DOMAIN resp.body :
            resp.body[i].video.likes =
                Cardinality({l \in video_likes :
                                l.video_id = resp.body[i].video.id})

\* C1: each like_video call flips the presence of the caller's like row
\* (inserted with "Video liked", deleted with "Like removed"), two
\* consecutive calls are net zero, and the like count returned by
\* get_video / list_videos is the number of like rows of the video.
C1_LikeToggle == [][C1_LikeStep]_vars /\ []C1_LikeCountShown

\* a like was taken back while another like stays, and a video shows it
C1_Witness ==
    /\ resp.op = "like_video"
    /\ resp.detail = "Like removed"
    /\ <<resp.uid, resp.arg>> \in resp.before
    /\ ~HasLike(video_likes, resp.uid, resp.arg)
    /\ \E l \in video_likes : l.video_id = resp.arg

\* the genres attached to the videos u has liked
LikedGenres(u) ==
    {g \in DOMAIN genres :
        \E l \in video_likes :
            /\ l.user_id = u
            /\ [video_id |-> l.video_id, genre_id |-> g] \in video_genre}

\* C2: a video the requesting user has already liked is not recommended to
\* that user: while no video other than the liked ones carries a liked
\* genre the recommendations are empty, and another user's video carrying
\* one is recommended with its overlap score.
C2_LikedVideoNotRecommended ==
    (resp.op = "get_recommendations" /\ resp.status = 200) =>
        LET u == resp.uid
            mine == {v \in DOMAIN videos : HasLike(video_likes, u, v)}
            others == {v \in DOMAIN videos \ mine :
                          /\ videos[v].owner_id # u
                          /\ GenresOf(video_genre, v) \cap LikedGenres(u) # {}}
        IN  /\ \A i \in DOMAIN resp.body : resp.body[i].video.id \notin mine
            /\ others = {} => resp.body = <<>>
            /\ \A w \in others :
                  \E i \in DOMAIN resp.body :
                      /\ resp.body[i].video.id = w
                      /\ resp.body[i].score =
                            Cardinality(GenresOf(video_genre, w)
                                        \cap LikedGenres(u))

\* the genre names of a form name one genre twice in different casings
RepeatsGenre(names) ==
    \E i, j \in DOMAIN names :
        i < j /\ names[i] # names[j] /\ str_lower(names[i]) = str_lower(names[j])

\* the first spelling in names of each genre named
FirstSpellings(names) ==
    {names[i] : i \in {k \in DOMAIN names :
                         \A j \in 1..(k - 1) :
                             str_lower(names[j]) # str_lower(names[k])}}

C3_UploadStep ==
    \A token \in Tokens, form \in GenreForms :
        LET names == genre_names(form)
            vid == Len(videos) + 1
        IN  (/\ upload_video(token, form)
             /\ get_current_user(token, users) # 0
             /\ RepeatsGenre(names)
             /\ \A i \in DOMAIN names : GenreMatches(genres, names[i]) = {}) =>
              /\ resp'.status = 201
              /\ Len(videos') = vid
              /\ Range(genres') = Range(genres) \cup FirstSpellings(names)
              /\ Len(genres') = Len(genres) + Cardinality(FirstSpellings(names))
              /\ \A g \in DOMAIN genres' :
                    genres'[g] \in FirstSpellings(names) =>
                       [video_id |-> vid, genre_id |-> g] \in video_genre'
              /\ Cardinality({r \in video_genre' : r.video_id = vid})
                    = Cardinality(FirstSpellings(names))

\* C3: an upload whose genres field names the same, not yet existing, genre
\* several times in different casings succeeds and leaves exactly one Genre
\* row for it, spelled as its first occurrence, linked to the new video once.
C3_RepeatedGenreUpload == [][C3_UploadStep]_vars

HasUser(tbl, name) == \E i \in DOMAIN tbl : tbl[i].username = name

C8_RegisterStep ==
    \A name \in UserNames :
        register(name) =>
            IF HasUser(users, name)
            THEN resp'.status = 400 /\ users' = users
            ELSE /\ resp'.status = 201
                 /\ Len(users') = Len(users) + 1
                 /\ SubSeq(users', 1, Len(users)) = users
                 /\ users'[Len(users')].username = name

C8_UsernamesUnique ==
    \A i, j \in DOMAIN users : users[i].username = users[j].username => i = j

\* C8: register of a username that already has a User row answers 400 and
\* creates no row, register of a fresh username creates exactly one row, and
\* so every username belongs to at most one User row.
C8_RegisterOnce == [][C8_RegisterStep]_vars /\ []C8_UsernamesUnique

\* a second registration of a name was refused
C8_Witness ==
    /\ resp.op = "register"
    /\ resp.status = 400
    /\ HasUser(users, resp.arg)
    /\ Len(users) = Cardinality(UserNames)

C6_SubscribeStep ==
    \A token \in Tokens, user_id \in UserIds :
        LET uid == get_current_user(token, users)
        IN  /\ (subscribe_user(token, user_id) /\ token = InvalidToken) =>
                  resp'.status = 401 /\ UNCHANGED tables
            /\ (subscribe_user(token, user_id) /\ uid # 0 /\ uid = user_id) =>
                  resp'.status = 400 /\ UNCHANGED tables

C6_NoSelfSubscription ==
    \A sub \in subscriptions : sub.subscriber_id # sub.channel_id

\* C6: subscribe_user on the caller's own id never succeeds: an invalid
\* token is answered 401, a valid one 400, both leaving every row as it
\* was, whatever subscriptions exist; no Subscription row has subscriber_id
\* equal to channel_id.
C6_SelfSubscribeRejected ==
    [][C6_SubscribeStep]_vars /\ []C6_NoSelfSubscription

\* a self-subscription was refused while the caller has a subscription
C6_Witness ==
    /\ resp.op = "subscribe_user"
    /\ resp.status = 400
    /\ resp.uid = resp.arg
    /\ \E sub \in subscriptions : sub.subscriber_id = resp.uid

C10_NotFoundStep ==
    \A token \in Tokens :
        LET uid == get_current_user(token, users)
        IN  /\ \A video_id \in VideoIds :
                  (/\ like_video(token, video_id) \/ add_comment(token, video_id)
                   /\ uid # 0
                   /\ video_id \notin DOMAIN videos) =>
                      resp'.status = 404 /\ UNCHANGED tables
            /\ \A user_id \in UserIds :
                  (/\ subscribe_user(token, user_id)
                   /\ uid # 0
                   /\ user_id # uid
                   /\ user_id \notin DOMAIN users) =>
                      resp'.status = 404 /\ UNCHANGED tables

C10_RowsReferToRows ==
    /\ \A l \in video_likes : l.video_id \in DOMAIN videos
    /\ \A i \in DOMAIN comments : comments[i].video_id \in DOMAIN videos
    /\ \A sub \in subscriptions : sub.channel_id \in DOMAIN users

\* C10: like_video and add_comment on a video id without a Video row, and
\* subscribe_user on another user id without a User row, answer 404 and
\* leave every table unchanged; every VideoLike and Comment row refers to a
\* Video row and every Subscription row to a channel User row.
C10_NotFound == [][C10_NotFoundStep]_vars /\ []C10_RowsReferToRows

\* a like of a missing video was refused while likes, comments and
\* subscriptions exist
C10_Witness ==
    /\ resp.op = "like_video"
    /\ resp.status = 404
    /\ resp.arg \notin DOMAIN videos
    /\ video_likes # {}
    /\ comments # <<>>
    /\ subscriptions # {}

\* C5: whatever like_video and subscribe_user requests ran, and however
\* they interleaved, there is at most one VideoLike row per (user_id,
\* video_id) and at most one Subscription row per (subscriber_id, channel_id).
C5_OneRowPerPair ==
    /\ \A a, b \in video_likes :
          (a.user_id = b.user_id /\ a.video_id = b.video_id) => a = b
    /\ \A a, b \in subscriptions :
          (a.subscriber_id = b.subscriber_id /\ a.channel_id = b.channel_id)
              => a = b

\* two requests of one caller on one target were in flight together and
\* the constraint refused the second insert
C5_Witness ==
    /\ resp.status = 500
    /\ resp.op \in {"like_video", "subscribe_user"}
    /\ video_likes # {}
    /\ subscriptions # {}

C9_WriteStep ==
    \A q \in BagToSet(reqs) :
        /\ (LikeWrite(q) /\ q.plan.kind = "insert") =>
              /\ Cardinality(ExistingLike(video_likes', q.uid, q.arg)) = 1
              /\ IF HasLike(video_likes, q.uid, q.arg)
                 THEN /\ resp'.status = 500
                      /\ resp'.detail = "IntegrityError"
                      /\ video_likes' = video_likes
                 ELSE resp'.status = 200 /\ resp'.detail = "Video liked"
        /\ (SubscribeWrite(q) /\ q.plan.kind = "insert") =>
              /\ Cardinality(ExistingSub(subscriptions', q.uid, q.arg)) = 1
              /\ IF ExistingSub(subscriptions, q.uid, q.arg) # {}
                 THEN /\ resp'.status = 500
                      /\ resp'.detail = "IntegrityError"
                      /\ subscriptions' = subscriptions
                 ELSE resp'.status = 200 /\ resp'.detail = "Subscribed"

\* C9: when two identical toggle requests both read 'absent' before either
\* commits, their inserts do not both commit: the commit that finds the
\* pair's row already there ends with the constraint violation (an
\* unhandled error, no toggle message) and writes nothing, and exactly one
\* row for the pair exists afterwards.
C9_RacingInserts == [][C9_WriteStep]_vars

\* both requests had read 'absent'; the first has committed its row, the
\* second was refused, and one row for the pair exists
C9_Witness ==
    /\ resp.op = "like_video"
    /\ resp.status = 500
    /\ resp.detail = "IntegrityError"
    /\ Cardinality(ExistingLike(video_likes, resp.uid, resp.arg)) = 1
    /\ reqs = EmptyBag

EqualIgnoringCase(a, b) == str_lower(a) = str_lower(b)

\* C7: whatever upload_video requests ran, and however they interleaved, no
\* two Genre rows have names that are equal ignoring case.
C7_GenreNamesUniqueIgnoringCase ==
    \A i, j \in DOMAIN genres :
        EqualIgnoringCase(genres[i], genres[j]) => i = j

\* the videos that may be recommended to u: another owner's, carrying at
\* least one genre of L
Eligible(u, L) ==
    {v \in DOMAIN videos :
        videos[v].owner_id # u /\ GenresOf(video_genre, v) \cap L # {}}

Overlap(v, L) == Cardinality(GenresOf(video_genre, v) \cap L)

\* a is placed no later than b: higher score, or equal score and newer
PlacedBefore(a, b, L) ==
    \/ Overlap(a, L) > Overlap(b, L)
    \/ Overlap(a, L) = Overlap(b, L) /\ videos[a].created_at >= videos[b].created_at

\* C4: get_recommendations for u is empty when u has liked no video that
\* carries a genre; otherwise it holds only videos of other owners carrying
\* a genre of L (the genres of the videos u liked), each with score = the
\* number of its genres in L, ordered by score descending and then newest
\* first, and is the first 20 of that order.
C4_Recommendations ==
    (resp.op = "get_recommendations" /\ resp.status = 200) =>
        LET u == resp.uid
            L == LikedGenres(u)
            body == resp.body
            shown == {body[i].video.id : i \in DOMAIN body}
        IN  /\ L = {} => body = <<>>
            /\ \A i \in DOMAIN body :
                  /\ body[i].video.id \in Eligible(u, L)
                  /\ body[i].video.owner_id # u
                  /\ body[i].score = Overlap(body[i].video.id, L)
                  /\ body[i].score >= 1
            /\ \A i, j \in DOMAIN body :
                  i < j => /\ body[i].video.id # body[j].video.id
                           /\ PlacedBefore(body[i].video.id, body[j].video.id, L)
            /\ Len(body) = IF Cardinality(Eligible(u, L)) < RecLimit
                           THEN Cardinality(Eligible(u, L)) ELSE RecLimit
            /\ \A v \in shown, w \in Eligible(u, L) \ shown :
                  PlacedBefore(v, w, L)

\* more than 20 videos qualify, 20 are returned, and both scores and
\* creation times decide their order
C4_Witness ==
    /\ resp.op = "get_recommendations"
    /\ resp.status = 200
    /\ Len(resp.body) = RecLimit
    /\ Cardinality(Eligible(resp.uid, LikedGenres(resp.uid))) > RecLimit
    /\ resp.body[1].score > resp.body[RecLimit].score
    /\ resp.body[1].score = resp.body[2].score

====
